---- MODULE Spec2Model ----
(***************************************************************************)
(* BML markup language (src/lib.rs): the node model (BmlNode, BmlKind,     *)
(* BmlIndent), the tree builder (TryFrom<&str>, parse_node) and the        *)
(* serializer (BmlNode::serialize, Display).                               *)
(*                                                                         *)
(* Text is a sequence of tokens.  White space, punctuation and the line    *)
(* terminator are one token per character; a name and the content of a     *)
(* data line are one token each (the empty string is no token at all).     *)
(* The pest grammar bml.pest is not part of the sources: the order in      *)
(* which it emits productions and its reading of text are modelled from    *)
(* the specification (the definitions whose comment says "grammar").       *)
(***************************************************************************)
EXTENDS Integers, Sequences, FiniteSets, TLC

\* ------------------------------------------------------------------ bounds
MaxPairs == 3        \* node, attr and data productions in one input
MaxDepth == 2        \* nesting depth of node productions
MaxRepeat == 1       \* largest root repeat count handed to set_indent
UsizeBits == 16      \* width of usize in the model (TLC integers are 32 bit)

Names == {"0", "1"}
LineVals == {<<>>, <<"a">>}     \* the text of a data line: empty, or a word
AttrVals == {<<"v">>}
Units == {<<"\t">>, <<>>}

SP == " "
TAB == "\t"
NL == "\n"
COLON == ":"
EQUALS == "="
QUOTE == "\""
COMMENT == "//"
Punct == {SP, TAB, NL, COLON, EQUALS, QUOTE, COMMENT}

\* ------------------------------------------------------------- sequences
\* A string as text: the empty string writes nothing.
Tok(s) == IF s = "" THEN <<>> ELSE <<s>>

RECURSIVE Repeat(_, _)
\* str::repeat
Repeat(s, n) == IF n = 0 THEN <<>> ELSE s \o Repeat(s, n - 1)

RECURSIVE Flatten(_)
Flatten(ss) == IF ss = <<>> THEN <<>> ELSE Head(ss) \o Flatten(Tail(ss))

\* --------------------------------------------------------------- BmlIndent
BmlIndent_default == [string |-> <<SP, SP>>, repeat |-> 0]

\* faulty variant: the repeat count stays
BmlIndent_same(indent) == indent

BmlIndent_next(indent) == [indent EXCEPT !.repeat = @ + 1]

BmlIndent_fmt(indent) == Repeat(indent.string, indent.repeat)

\* ----------------------------------------------------------------- BmlNode
BmlKind_default == [tag |-> "Root", indent |-> BmlIndent_default]

BmlNode_default == [kind |-> BmlKind_default, data |-> <<>>, node |-> <<>>]

BmlNode_root == [BmlNode_default EXCEPT !.kind = [tag |-> "Root", indent |-> BmlIndent_default]]

BmlNode_elem == [BmlNode_default EXCEPT !.kind = [tag |-> "Elem"]]

BmlNode_attr == [BmlNode_default EXCEPT !.kind = [tag |-> "Attr", quote |-> TRUE]]

\* faulty variant: the pair goes in front
append_front(self, name, node) == [self EXCEPT !.node = <<<<name, node>>>> \o @]

append(self, name, node) == [self EXCEPT !.node = Append(@, <<name, node>>)]

\* node.data.push_str(..); node.data.push('\n')
push_line(self, str) == [self EXCEPT !.data = (@ \o str) \o <<NL>>]

RECURSIVE SplitLines(_, _)
\* str::lines: the pieces between line terminators; a last piece without
\* terminator is a line of its own unless it is empty.
SplitLines(data, cur) ==
    IF data = <<>> THEN (IF cur = <<>> THEN <<>> ELSE <<cur>>)
    ELSE IF Head(data) = NL THEN <<cur>> \o SplitLines(Tail(data), <<>>)
    ELSE SplitLines(Tail(data), Append(cur, Head(data)))

lines(self) == SplitLines(self.data, <<>>)

nodes(self) == [i \in 1..Len(self.node) |-> <<self.node[i][1], self.node[i][2]>>]

\* ------------------------------------------------------------ tree builder
RECURSIVE attr_data(_, _)
\* faulty variant: the quote flag is never cleared
attr_data_quoted(attr, inner) ==
    IF inner = <<>> THEN attr
    ELSE attr_data(push_line(attr, Head(inner).str), Tail(inner))

\* Rule::data of an attr: every inner pair is one line; a space_data_inner
\* clears the quote flag.
attr_data(attr, inner) ==
    IF inner = <<>> THEN attr
    ELSE LET data == Head(inner)
             kind == IF data.rule = "space_data_inner"
                     THEN [tag |-> "Attr", quote |-> FALSE] ELSE attr.kind
         IN attr_data(push_line([attr EXCEPT !.kind = kind], data.str), Tail(inner))

\* The Rule::attr arm of parse_node: the (name, attr) it appends.
parse_attr(pair) == <<pair.name, attr_data(BmlNode_attr, pair.data)>>

\* grammar: an attribute has a name and at most one value, quoted (possibly
\* empty) or bare.
AttrPairs ==
    [name : Names, data : {<<>>}]
    \cup [name : Names,
          data : {<<[rule |-> r, str |-> v]>> :
                    r \in {"quote_data_inner", "space_data_inner"}, v \in AttrVals}
                 \cup {<<[rule |-> "quote_data_inner", str |-> <<>>]>>}]

\* -------------------------------------------------------------- serializer
RECURSIVE take_while_attr(_)
\* nodes().take_while(kind is Attr), counted
take_while_attr(ns) ==
    IF ns = <<>> \/ Head(ns)[2].kind.tag # "Attr" THEN 0
    ELSE 1 + take_while_attr(Tail(ns))

\* faulty variant: the second line is not looked at
inline_data_first_line(attrs, ls) == attrs = 0 /\ Len(ls) >= 1

\* faulty variant: the attributes are not looked at
inline_data_one_line(attrs, ls) == Len(ls) >= 1 /\ Len(ls) < 2

\* attrs == 0 && line0.is_some() && line1.is_none()
inline_data(attrs, ls) == attrs = 0 /\ Len(ls) >= 1 /\ Len(ls) < 2

RECURSIVE serialize(_, _, _)
serialize(self, name, indent) ==
    LET ns == nodes(self) IN
    CASE self.kind.tag = "Root" ->
            LET own == self.kind.indent IN
            Flatten([i \in 1..Len(ns) |->
                serialize(ns[i][2], ns[i][1], own)
                    \o (IF i < Len(ns) THEN <<NL>> ELSE <<>>)])
      [] self.kind.tag = "Elem" ->
            LET inner == BmlIndent_next(indent)
                attrs == take_while_attr(ns)
                ls == lines(self)
            IN  (BmlIndent_fmt(indent) \o Tok(name))
                \o Flatten([i \in 1..attrs |-> serialize(ns[i][2], ns[i][1], inner)])
                \o (IF inline_data(attrs, ls)
                    THEN <<COLON, SP>> \o ls[1] \o <<NL>>
                    ELSE <<NL>> \o Flatten([i \in 1..Len(ls) |->
                            BmlIndent_fmt(inner) \o <<COLON>> \o ls[i] \o <<NL>>]))
                \o Flatten([j \in 1..(Len(ns) - attrs) |->
                        serialize(ns[j + attrs][2], ns[j + attrs][1], inner)])
      [] OTHER ->
            LET ls == lines(self) IN
            (<<SP>> \o Tok(name))
                \o (IF ls = <<>> THEN <<>>
                    ELSE IF self.kind.quote THEN <<EQUALS, QUOTE>> \o ls[1] \o <<QUOTE>>
                    ELSE <<EQUALS>> \o ls[1])

\* impl Display for BmlNode
fmt(self) == serialize(self, "", BmlIndent_default)

\* ------------------------------------------------------------------ queries
\* faulty variant: the length saturates at 0 and the slice is empty
value_saturating(self, overflow_checks) ==
    LET len == Len(self.data)
        end == IF len = 0 THEN 0 ELSE len - 1
    IN  [status |-> "ok", out |-> SubSeq(self.data, 1, end)]

\* value(): &self.data[..self.data.len() - 1].  With overflow checks the
\* subtraction panics at 0; without them it wraps and the slice's range check
\* panics.
value(self, overflow_checks) ==
    LET len == Len(self.data)
        end == (len - 1) % (2 ^ UsizeBits)
    IN  IF overflow_checks /\ len - 1 < 0 THEN [status |-> "panic", out |-> <<>>]
        ELSE IF end > len THEN [status |-> "panic", out |-> <<>>]
        ELSE [status |-> "ok", out |-> SubSeq(self.data, 1, end)]

RECURSIVE filter_map(_, _)
filter_map(ns, name) ==
    IF ns = <<>> THEN <<>>
    ELSE (IF Head(ns)[1] = name THEN <<Head(ns)[2]>> ELSE <<>>) \o filter_map(Tail(ns), name)

\* named() over the Vec
named_vec(self, name) == filter_map(self.node, name)

RECURSIVE multimap_keys(_, _)
\* ListOrderedMultimap: per key, the positions of its values in append order
multimap_keys(ns, n) ==
    IF n = 0 THEN [k \in {} |-> <<>>]
    ELSE LET before == multimap_keys(ns, n - 1)
             key == ns[n][1]
         IN  IF key \in DOMAIN before
             THEN [before EXCEPT ![key] = Append(@, n)]
             ELSE [k \in DOMAIN before \cup {key} |->
                        IF k = key THEN <<n>> ELSE before[k]]

\* faulty variant: get(name), the first value of the key
named_multimap_first(self, name) ==
    LET keys == multimap_keys(self.node, Len(self.node)) IN
    IF name \in DOMAIN keys THEN <<self.node[keys[name][1]][2]>> ELSE <<>>

\* named() with the ordered-multimap feature: get_all(name)
named_multimap(self, name) ==
    LET keys == multimap_keys(self.node, Len(self.node)) IN
    IF name \in DOMAIN keys
    THEN [j \in 1..Len(keys[name]) |-> self.node[keys[name][j]][2]]
    ELSE <<>>

named(self, name, ordered_multimap) ==
    IF ordered_multimap THEN named_multimap(self, name) ELSE named_vec(self, name)

\* faulty variant: a node that is no root is left alone, without a panic
set_indent_lenient(self, string, repeat) ==
    IF self.kind.tag = "Root"
    THEN [status |-> "ok",
          node |-> [self EXCEPT !.kind.indent = [string |-> string, repeat |-> repeat]]]
    ELSE [status |-> "ok", node |-> self]

\* faulty variant: the root is made anew with the indent
set_indent_fresh(self, string, repeat) ==
    IF self.kind.tag = "Root"
    THEN [status |-> "ok",
          node |-> [BmlNode_root EXCEPT !.kind.indent = [string |-> string, repeat |-> repeat]]]
    ELSE [status |-> "panic", node |-> self]

set_indent(self, string, repeat) ==
    IF self.kind.tag = "Root"
    THEN [status |-> "ok",
          node |-> [self EXCEPT !.kind.indent = [string |-> string, repeat |-> repeat]]]
    ELSE [status |-> "panic", node |-> self]

RECURSIVE eq(_, _)
\* impl PartialEq for BmlNode
eq(self, other) ==
    /\ self.data = other.data
    /\ Len(self.node) = Len(other.node)
    /\ \A i \in 1..Len(self.node) :
        /\ self.node[i][1] = other.node[i][1]
        /\ eq(self.node[i][2], other.node[i][2])

\* ------------------------------------------------------- reaching a node
RECURSIVE Paths(_)
\* The nodes of a tree, each as the child positions leading to it.
Paths(n) ==
    {<<>>} \cup UNION {{<<i>> \o p : p \in Paths(n.node[i][2])} : i \in 1..Len(n.node)}

RECURSIVE NodeAt(_, _)
NodeAt(n, p) == IF p = <<>> THEN n ELSE NodeAt(n.node[Head(p)][2], Tail(p))

\* ---------------------------------------------------- reading text (grammar)
IsWs(t) == t \in {SP, TAB}

Drop(s, n) == SubSeq(s, n + 1, Len(s))

RECURSIVE Until(_, _)
\* The tokens of s before the first one in stop.
Until(s, stop) ==
    IF s = <<>> \/ Head(s) \in stop THEN <<>> ELSE <<Head(s)>> \o Until(Tail(s), stop)

RECURSIVE LeadWs(_)
\* The white space a line starts with: its indentation.
LeadWs(line) ==
    IF line = <<>> \/ ~IsWs(Head(line)) THEN <<>> ELSE <<Head(line)>> \o LeadWs(Tail(line))

RECURSIVE LexAttrs(_)
\* grammar: the attributes of an element line, each `name`, `name=value` or
\* `name="value"` after a run of white space.
LexAttrs(s) ==
    LET t == Drop(s, Len(LeadWs(s))) IN
    IF t = <<>> \/ Head(t) = COMMENT THEN [ok |-> TRUE, attrs |-> <<>>]
    ELSE IF LeadWs(s) = <<>> \/ Head(t) \in Punct THEN [ok |-> FALSE, attrs |-> <<>>]
    ELSE
        LET name == Head(t)
            u == Tail(t)
            quoted == Len(u) >= 2 /\ u[1] = EQUALS /\ u[2] = QUOTE
            bare == ~quoted /\ u # <<>> /\ u[1] = EQUALS
            v == IF quoted THEN Until(Drop(u, 2), {QUOTE})
                 ELSE IF bare THEN Until(Tail(u), {SP, TAB})
                 ELSE <<>>
            after == IF quoted THEN Drop(u, 3 + Len(v))
                     ELSE IF bare THEN Drop(u, 1 + Len(v))
                     ELSE u
            bad == \/ quoted /\ Len(u) < 3 + Len(v)   \* no closing quote
                   \/ bare /\ v = <<>>
            pair == [name |-> name,
                     data |-> IF quoted THEN <<[rule |-> "quote_data_inner", str |-> v]>>
                              ELSE IF bare THEN <<[rule |-> "space_data_inner", str |-> v]>>
                              ELSE <<>>]
        IN  IF bad THEN [ok |-> FALSE, attrs |-> <<>>]
            ELSE LET more == LexAttrs(after) IN
                 [ok |-> more.ok, attrs |-> <<pair>> \o more.attrs]

\* grammar: a line is blank (or a comment), a data line `:text`, or an element
\* line: a name, then either `:` with the text after one optional space, or
\* attributes.
LexLine(line) ==
    LET ws == LeadWs(line)
        rest == Drop(line, Len(ws))
    IN  IF rest = <<>> \/ Head(rest) = COMMENT THEN [kind |-> "blank"]
        ELSE IF Head(rest) = COLON
        THEN [kind |-> "data", indent |-> ws, str |-> Tail(rest)]
        ELSE IF Head(rest) \in Punct THEN [kind |-> "error"]
        ELSE
            LET after == Tail(rest) IN
            IF after # <<>> /\ Head(after) = COLON
            THEN LET v == Tail(after) IN
                 [kind |-> "node", indent |-> ws, name |-> Head(rest), attrs |-> <<>>,
                  data |-> <<IF v # <<>> /\ Head(v) = SP THEN Tail(v) ELSE v>>]
            ELSE LET a == LexAttrs(after) IN
                 IF a.ok
                 THEN [kind |-> "node", indent |-> ws, name |-> Head(rest),
                       attrs |-> a.attrs, data |-> <<>>]
                 ELSE [kind |-> "error"]

RECURSIVE append_attrs(_, _)
\* parse_node over the attr pairs of one element line
append_attrs(node, attrs) ==
    IF attrs = <<>> THEN node
    ELSE LET na == parse_attr(Head(attrs)) IN
         append_attrs(append(node, na[1], na[2]), Tail(attrs))

RECURSIVE push_lines(_, _)
push_lines(node, data) ==
    IF data = <<>> THEN node ELSE push_lines(push_line(node, Head(data)), Tail(data))

\* parse_node over the productions of one element line
parse_line(l) == push_lines(append_attrs(BmlNode_elem, l.attrs), l.data)

IsProperPrefix(a, b) == Len(a) < Len(b) /\ SubSeq(b, 1, Len(a)) = a

\* parse_node returns and its caller appends
CloseTop(open) ==
    LET n == Len(open) IN
    [SubSeq(open, 1, n - 1) EXCEPT ![n - 1].node = append(@, open[n].name, open[n].node)]

RECURSIVE CloseTo(_, _)
\* grammar: a line belongs to the innermost open element whose indentation
\* its own properly extends; the elements opened deeper end before it.
CloseTo(open, ws) ==
    IF open[Len(open)].isroot \/ IsProperPrefix(open[Len(open)].indent, ws) THEN open
    ELSE CloseTo(CloseTop(open), ws)

RECURSIVE CloseAll(_)
CloseAll(open) == IF Len(open) = 1 THEN open ELSE CloseAll(CloseTop(open))

ParseError == [ok |-> FALSE, root |-> BmlNode_root]

RECURSIVE ParseLines(_, _)
\* grammar: the lines of a document, nested by indentation; the children of
\* one element share one indentation, and a data line needs an element.
ParseLines(lns, open) ==
    IF lns = <<>> THEN [ok |-> TRUE, root |-> CloseAll(open)[1].node]
    ELSE
        LET l == LexLine(Head(lns)) IN
        IF l.kind = "blank" THEN ParseLines(Tail(lns), open)
        ELSE IF l.kind = "error" THEN ParseError
        ELSE
            LET now == CloseTo(open, l.indent)
                n == Len(now)
                fits == ~now[n].child.set \/ now[n].child.ws = l.indent
                marked == [now EXCEPT ![n].child = [set |-> TRUE, ws |-> l.indent]]
            IN  IF ~fits \/ (l.kind = "data" /\ now[n].isroot) THEN ParseError
                ELSE IF l.kind = "data"
                THEN ParseLines(Tail(lns), [marked EXCEPT ![n].node = push_line(@, l.str)])
                ELSE ParseLines(Tail(lns),
                        Append(marked, [isroot |-> FALSE, indent |-> l.indent,
                                        child |-> [set |-> FALSE, ws |-> <<>>],
                                        name |-> l.name, node |-> parse_line(l)]))

\* impl TryFrom<&str> for BmlNode, on text
try_from(bml) ==
    ParseLines(SplitLines(bml, <<>>),
               <<[isroot |-> TRUE, indent |-> <<>>, child |-> [set |-> FALSE, ws |-> <<>>],
                  name |-> "", node |-> BmlNode_root]>>)

\* grammar: the productions inside a node come in the order name, attributes,
\* then data and nested nodes; stage is what a node may hold next.
MayFollow(stage, rule) ==
    CASE rule = "name" -> stage = "name"
      [] rule = "attr" -> stage = "attrs"
      [] rule = "data" -> stage \in {"attrs", "body"}
      [] OTHER -> stage # "name"

NextStage(rule) == IF rule = "name" THEN "attrs" ELSE "body"

\* ------------------------------------------------------------------- state
VARIABLES
    root,     \* try_from's root (the tree, once built)
    stack,    \* the parse_node invocations in progress, innermost last
    pairs,    \* productions consumed so far
    appended, \* per node under construction, the (name, node) handed to append
    phase,    \* "build", "built", "called", "reparsed", "panicked"
    call      \* the last operation: its arguments and what it returned

vars == <<root, stack, pairs, appended, phase, call>>

NoCall == [op |-> "none", target |-> <<>>, arg |-> <<>>, status |-> "ok", out |-> <<>>]

Init ==
    /\ root = BmlNode_root
    /\ stack = <<>>
    /\ pairs = 0
    /\ appended = <<<<>>>>
    /\ phase = "build"
    /\ call = NoCall

\* Rule::node: parse_node starts on a nested pair.
EvNode ==
    /\ phase = "build"
    /\ pairs < MaxPairs
    /\ Len(stack) < MaxDepth
    /\ stack # <<>> => MayFollow(stack[Len(stack)].stage, "node")
    /\ stack' = Append(stack, [name |-> "", node |-> BmlNode_elem, stage |-> "name"])
    /\ appended' = Append(appended, <<>>)
    /\ pairs' = pairs + 1
    /\ call' = [NoCall EXCEPT !.op = "node"]
    /\ UNCHANGED <<root, phase>>

\* Rule::name
EvName ==
    /\ phase = "build"
    /\ stack # <<>>
    /\ MayFollow(stack[Len(stack)].stage, "name")
    /\ \E n \in Names :
        /\ stack' = [stack EXCEPT ![Len(stack)].name = n,
                                  ![Len(stack)].stage = NextStage("name")]
        /\ call' = [NoCall EXCEPT !.op = "name", !.arg = n]
    /\ UNCHANGED <<root, pairs, appended, phase>>

\* Rule::attr
EvAttr ==
    /\ phase = "build"
    /\ pairs < MaxPairs
    /\ stack # <<>>
    /\ MayFollow(stack[Len(stack)].stage, "attr")
    /\ \E pair \in AttrPairs :
        LET na == parse_attr(pair) IN
        /\ stack' = [stack EXCEPT ![Len(stack)].node = append(@, na[1], na[2])]
        /\ appended' = [appended EXCEPT ![Len(appended)] = Append(@, na)]
        /\ call' = [NoCall EXCEPT !.op = "attr", !.arg = pair, !.out = na]
    /\ pairs' = pairs + 1
    /\ UNCHANGED <<root, phase>>

\* Rule::data of a node
EvData ==
    /\ phase = "build"
    /\ pairs < MaxPairs
    /\ stack # <<>>
    /\ MayFollow(stack[Len(stack)].stage, "data")
    /\ \E str \in LineVals :
        /\ stack' = [stack EXCEPT ![Len(stack)].node = push_line(@, str),
                                  ![Len(stack)].stage = NextStage("data")]
        /\ call' = [NoCall EXCEPT !.op = "data", !.arg = str]
    /\ pairs' = pairs + 1
    /\ UNCHANGED <<root, appended, phase>>

\* parse_node returns (name, node) and the caller appends it: try_from to the
\* root, parse_node to its own node.
EvEnd ==
    /\ phase = "build"
    /\ stack # <<>>
    /\ MayFollow(stack[Len(stack)].stage, "end")
    /\ LET top == stack[Len(stack)]
           rest == SubSeq(stack, 1, Len(stack) - 1)
           logs == SubSeq(appended, 1, Len(appended) - 1)
       IN /\ IF rest = <<>>
             THEN /\ root' = append(root, top.name, top.node)
                  /\ stack' = rest
             ELSE /\ root' = root
                  /\ stack' = [rest EXCEPT ![Len(rest)].node = append(@, top.name, top.node),
                                          ![Len(rest)].stage = NextStage("node")]
          /\ appended' = [logs EXCEPT ![Len(logs)] = Append(@, <<top.name, top.node>>)]
          /\ call' = [NoCall EXCEPT !.op = "end"]
    /\ UNCHANGED <<pairs, phase>>

\* Rule::EOI: try_from returns Ok(root).
EvEOI ==
    /\ phase = "build"
    /\ stack = <<>>
    /\ phase' = "built"
    /\ call' = [NoCall EXCEPT !.op = "eoi"]
    /\ UNCHANGED <<root, stack, pairs, appended>>

\* ---------------------------------------------------------- the built tree
\* A caller reaches the root, and through nodes() and named() every node
\* below it (a clone of it where the call needs it mutable).  The queries
\* leave the tree as it is, so a behaviour makes one of them, after any
\* number of set_indent calls: a second query would see what the first saw.

\* impl Display: format!("{}", node)
Display ==
    /\ phase = "built"
    /\ \E p \in Paths(root) :
        call' = [op |-> "display", target |-> p, arg |-> <<>>, status |-> "ok",
                 out |-> fmt(NodeAt(root, p))]
    /\ phase' = "called"
    /\ UNCHANGED <<root, stack, pairs, appended>>

Value ==
    /\ phase = "built"
    /\ \E p \in Paths(root), overflow_checks \in BOOLEAN :
        LET r == value(NodeAt(root, p), overflow_checks) IN
        /\ call' = [op |-> "value", target |-> p, arg |-> overflow_checks,
                    status |-> r.status, out |-> r.out]
        /\ phase' = IF r.status = "panic" THEN "panicked" ELSE "called"
    /\ UNCHANGED <<root, stack, pairs, appended>>

Nodes ==
    /\ phase = "built"
    /\ \E p \in Paths(root) :
        call' = [op |-> "nodes", target |-> p, arg |-> <<>>, status |-> "ok",
                 out |-> nodes(NodeAt(root, p))]
    /\ phase' = "called"
    /\ UNCHANGED <<root, stack, pairs, appended>>

Named ==
    /\ phase = "built"
    /\ \E p \in Paths(root), name \in Names, ordered_multimap \in BOOLEAN :
        call' = [op |-> "named", target |-> p,
                 arg |-> [name |-> name, ordered_multimap |-> ordered_multimap],
                 status |-> "ok",
                 out |-> named(NodeAt(root, p), name, ordered_multimap)]
    /\ phase' = "called"
    /\ UNCHANGED <<root, stack, pairs, appended>>

SetIndent ==
    /\ phase = "built"
    /\ \E p \in Paths(root), string \in Units, repeat \in 0..MaxRepeat :
        LET r == set_indent(NodeAt(root, p), string, repeat) IN
        /\ call' = [op |-> "set_indent", target |-> p,
                    arg |-> [string |-> string, repeat |-> repeat],
                    status |-> r.status, out |-> <<r.node>>]
        /\ root' = IF p = <<>> THEN r.node ELSE root
        /\ phase' = IF r.status = "panic" THEN "panicked" ELSE phase
    /\ UNCHANGED <<stack, pairs, appended>>

\* BmlNode::try_from(&text) on the text Display wrote for the root
Reparse ==
    /\ phase = "called"
    /\ call.op = "display"
    /\ call.target = <<>>
    /\ LET r == try_from(call.out) IN
       call' = [op |-> "try_from", target |-> call.target, arg |-> call.out,
                status |-> IF r.ok THEN "ok" ELSE "err", out |-> <<r.root>>]
    /\ phase' = "reparsed"
    /\ UNCHANGED <<root, stack, pairs, appended>>

\* The tree builder: try_from over the productions of one input.
Build ==
    \/ EvNode
    \/ EvName
    \/ EvAttr
    \/ EvData
    \/ EvEnd
    \/ EvEOI

\* Building a tree and asking for its content.
NextQuery ==
    \/ Build
    \/ Value
    \/ Nodes
    \/ Named

\* Building a tree, setting its indent, writing it and reading it back.
NextText ==
    \/ Build
    \/ SetIndent
    \/ Display
    \/ Reparse

Next ==
    \/ NextQuery
    \/ NextText

Spec == Init /\ [][Next]_vars

\* The queries read the tree and the indent is read by Display alone, so the
\* behaviours of Spec are covered by those of the two specifications below.
SpecQuery == Init /\ [][NextQuery]_vars

SpecText == Init /\ [][NextText]_vars

\* ------------------------------------------------------------- the claims
\* The trees of a state: the root, and the nodes parse_node is building.
Trees == {root} \cup {stack[i].node : i \in DOMAIN stack}

RECURSIVE Within(_)
Within(n) == {n} \cup UNION {Within(n.node[i][2]) : i \in 1..Len(n.node)}

EveryNode == UNION {Within(t) : t \in Trees}

RECURSIVE Entries(_, _)
\* The (name, node, depth) below n, the children of n at the given depth.
Entries(n, depth) ==
    UNION {{<<n.node[i][1], n.node[i][2], depth>>} \cup Entries(n.node[i][2], depth + 1) :
            i \in 1..Len(n.node)}

AttrChildren(n) == {i \in 1..Len(n.node) : n.node[i][2].kind.tag = "Attr"}

ElemChildren(n) == {i \in 1..Len(n.node) : n.node[i][2].kind.tag = "Elem"}

NonBlank(ls) == SelectSeq(ls, LAMBDA l : l # <<>>)

OrderPreserved ==
    /\ nodes(root) = appended[1]
    /\ \A i \in DOMAIN stack : nodes(stack[i].node) = appended[i + 1]
    /\ (call.op = "nodes" /\ call.target = <<>>) => call.out = appended[1]

OrderPreservedWitness ==
    /\ call.op = "nodes"
    /\ call.target = <<>>
    /\ Len(call.out) = 3
    /\ call.out[1][1] = "0"
    /\ call.out[2][1] = "1"
    /\ call.out[3][1] = "0"

\* The positions of n's children that are stored under name.
Keyed(n, name) == {i \in 1..Len(n.node) : n.node[i][1] = name}

\* C3: named(name) yields the direct children stored under name, each once,
\* in the order of their positions, and nothing else; with the Vec and with
\* the ordered multimap.
NamedLookup ==
    call.op = "named" =>
        LET n == NodeAt(root, call.target)
            K == Keyed(n, call.arg.name)
        IN  /\ Len(call.out) = Cardinality(K)
            /\ \A i \in K : call.out[Cardinality({k \in K : k <= i})] = n.node[i][2]

NamedLookupWitness ==
    /\ call.op = "named"
    /\ call.arg.ordered_multimap
    /\ Len(NodeAt(root, call.target).node) = 2
    /\ Len(call.out) = 2
    /\ call.out[1] # call.out[2]
    /\ call.out[1] = NodeAt(root, call.target).node[1][2]
    /\ call.out[2] = NodeAt(root, call.target).node[2][2]

\* What the claim says an element's text is: the header, inline data exactly
\* when there is no attribute child and one data line, else the data lines
\* one level deeper, then the element children.
Rendered(e, name, indent, text) ==
    LET ls == lines(e)
        deeper == BmlIndent_next(indent)
        attrs == Flatten([i \in 1..Len(e.node) |->
                    IF i \in AttrChildren(e)
                    THEN serialize(e.node[i][2], e.node[i][1], deeper) ELSE <<>>])
        elems == Flatten([i \in 1..Len(e.node) |->
                    IF i \in ElemChildren(e)
                    THEN serialize(e.node[i][2], e.node[i][1], deeper) ELSE <<>>])
        head == BmlIndent_fmt(indent) \o Tok(name)
    IN  IF AttrChildren(e) = {} /\ Len(ls) = 1
        THEN text = ((head \o <<COLON, SP>>) \o ls[1] \o <<NL>>) \o elems
        ELSE text = ((head \o attrs) \o <<NL>>)
                    \o Flatten([i \in 1..Len(ls) |->
                            (BmlIndent_fmt(deeper) \o <<COLON>>) \o ls[i] \o <<NL>>])
                    \o elems

\* C4: an element is written with its data inline, `name: value`, exactly
\* when it has no attribute child and exactly one data line; otherwise the
\* header line ends and every data line follows as `<deeper indent>:line`.
InlineOrBlock ==
    /\ \A x \in Entries(root, 0) :
        x[2].kind.tag = "Elem" =>
            LET indent == [root.kind.indent EXCEPT !.repeat = @ + x[3]] IN
            Rendered(x[2], x[1], indent, serialize(x[2], x[1], indent))
    /\ (call.op = "display" /\ NodeAt(root, call.target).kind.tag = "Elem") =>
            Rendered(NodeAt(root, call.target), "", BmlIndent_default, call.out)

InlineOrBlockWitness ==
    /\ call.op = "display"
    /\ call.target = <<1>>
    /\ Cardinality(AttrChildren(NodeAt(root, <<1>>))) = 1
    /\ lines(NodeAt(root, <<1>>)) = <<<<"a">>>>
    /\ Len(SplitLines(call.out, <<>>)) = 2
    /\ SplitLines(call.out, <<>>)[2] = <<SP, SP, COLON, "a">>

\* C5: the attr arm builds quote = FALSE exactly when a data production of
\* the attribute is the bare, space-delimited form; the attribute is written
\* as ` name="value"` when quoted, ` name=value` when not, ` name` alone when
\* it has no data line, and never ends the line.
AttrQuoting ==
    /\ call.op = "attr" =>
        LET pair == call.arg
            name == call.out[1]
            attr == call.out[2]
            text == serialize(attr, name, BmlIndent_default)
            bare == \E i \in DOMAIN pair.data : pair.data[i].rule = "space_data_inner"
        IN  /\ attr.kind.tag = "Attr"
            /\ attr.kind.quote = ~bare
            /\ pair.data = <<>> => text = <<SP, name>>
            /\ (pair.data # <<>> /\ bare) =>
                    text = <<SP, name, EQUALS>> \o pair.data[1].str
            /\ (pair.data # <<>> /\ ~bare) =>
                    text = (<<SP, name, EQUALS, QUOTE>> \o pair.data[1].str) \o <<QUOTE>>
            /\ \A k \in DOMAIN text : text[k] # NL
    /\ (call.op = "display" /\ NodeAt(root, call.target).kind.tag = "Attr") =>
        LET attr == NodeAt(root, call.target)
            ls == lines(attr)
        IN  call.out = IF ls = <<>> THEN <<SP>>
                       ELSE IF attr.kind.quote THEN (<<SP, EQUALS, QUOTE>> \o ls[1]) \o <<QUOTE>>
                       ELSE <<SP, EQUALS>> \o ls[1]

AttrQuotingWitness ==
    /\ call.op = "attr"
    /\ call.arg.data # <<>>
    /\ call.arg.data[1].rule = "space_data_inner"
    /\ ~call.out[2].kind.quote
    /\ serialize(call.out[2], call.out[1], BmlIndent_default)
            = <<SP, call.arg.name, EQUALS, "v">>

RECURSIVE DocLines(_, _, _)
\* The lines an element takes in the text, in order: for each the depth of
\* the node it belongs to and the token that follows its indentation.
DocLines(e, name, depth) ==
    LET ls == lines(e) IN
    <<[depth |-> depth, first |-> name]>>
    \o (IF AttrChildren(e) = {} /\ Len(ls) = 1 THEN <<>>
        ELSE [i \in 1..Len(ls) |-> [depth |-> depth + 1, first |-> COLON]])
    \o Flatten([i \in 1..Len(e.node) |->
            IF i \in ElemChildren(e)
            THEN DocLines(e.node[i][2], e.node[i][1], depth + 1) ELSE <<>>])

\* C6 (text): in the text of a root, every element header, and every block
\* data line one level deeper, starts with the root's unit string repeated
\* (root repeat + depth) times; top-level children have depth 0.  A root that
\* try_from returns has the unit of two spaces and the repeat 0.
IndentByDepthText ==
    /\ phase = "build" => root.kind.indent = BmlIndent_default
    /\ (call.op = "display" /\ call.target = <<>>) =>
        LET ls == NonBlank(SplitLines(call.out, <<>>))
            doc == Flatten([i \in 1..Len(root.node) |->
                        DocLines(root.node[i][2], root.node[i][1], 0)])
        IN  /\ Len(ls) = Len(doc)
            /\ \A k \in 1..Len(doc) :
                LET pre == Repeat(root.kind.indent.string,
                                  root.kind.indent.repeat + doc[k].depth)
                IN  /\ Len(ls[k]) > Len(pre)
                    /\ SubSeq(ls[k], 1, Len(pre)) = pre
                    /\ ls[k][Len(pre) + 1] = doc[k].first

\* C6: IndentByDepthText, and the indent of the root changes only in a
\* set_indent call.
IndentByDepth ==
    /\ []IndentByDepthText
    /\ [][root'.kind.indent # root.kind.indent => call'.op = "set_indent"]_vars

IndentByDepthWitness ==
    /\ call.op = "display"
    /\ call.target = <<>>
    /\ root.kind.indent = [string |-> <<TAB>>, repeat |-> 1]
    /\ Len(call.out) >= 6
    /\ \E a, b \in Names :
        SubSeq(call.out, 1, 6) = <<TAB, a, NL, TAB, TAB, b>>

\* C7: set_indent on a node that is not a Root panics, and leaves the node
\* as it was: no node but the root holds an indent.
SetIndentNonRoot ==
    /\ (call.op = "set_indent" /\ call.target # <<>>) =>
        /\ call.status = "panic"
        /\ phase = "panicked"
        /\ call.out[1] = NodeAt(root, call.target)
    /\ \A x \in Entries(root, 0) :
        x[2].kind.tag # "Root" /\ "indent" \notin DOMAIN x[2].kind

SetIndentNonRootWitness ==
    /\ call.op = "set_indent"
    /\ call.target # <<>>
    /\ NodeAt(root, call.target).kind.tag = "Attr"
    /\ call.status = "panic"

\* C8: value() on a node without data panics, with overflow checks (the
\* subtraction) and without them (the wrapped length fails the slice's range
\* check); it returns nothing.
ValueOfEmpty ==
    (call.op = "value" /\ NodeAt(root, call.target).data = <<>>) =>
        (call.status = "panic" /\ phase = "panicked" /\ call.out = <<>>)

ValueOfEmptyWitness ==
    /\ call.op = "value"
    /\ ~call.arg
    /\ NodeAt(root, call.target).kind.tag = "Elem"
    /\ NodeAt(root, call.target).data = <<>>
    /\ call.status = "panic"

\* C9: a set_indent step on the root stores the given unit and repeat in the
\* root and changes nothing else: data and children are the same, and the
\* tree is equal (eq) to the tree before the call.
SetIndentFrame ==
    [][(call'.op = "set_indent" /\ call'.target = <<>>) =>
            /\ call'.status = "ok"
            /\ root'.kind = [tag |-> "Root", indent |-> call'.arg]
            /\ root'.data = root.data
            /\ root'.node = root.node
            /\ eq(root', root)
            /\ eq(root, root')]_vars

SetIndentFrameWitness ==
    /\ call.op = "set_indent"
    /\ call.target = <<>>
    /\ call.status = "ok"
    /\ root.kind.indent = [string |-> <<TAB>>, repeat |-> 1]
    /\ \E i \in 1..Len(root.node) : root.node[i][2].node # <<>>

\* C10: at every step of the construction the Attribute children of an
\* Element are a prefix of its children, an Attribute has no children and
\* the Root has no Attribute child; so the serializer's take_while covers
\* every attribute and its skip visits Elements only.
AttrPrefix ==
    \A n \in EveryNode :
        /\ n.kind.tag = "Attr" => n.node = <<>>
        /\ n.kind.tag = "Root" => AttrChildren(n) = {}
        /\ n.kind.tag = "Elem" =>
            /\ \A i, j \in 1..Len(n.node) : (i < j /\ j \in AttrChildren(n)) => i \in AttrChildren(n)
            /\ take_while_attr(nodes(n)) = Cardinality(AttrChildren(n))
            /\ \A j \in (take_while_attr(nodes(n)) + 1)..Len(n.node) : j \in ElemChildren(n)

AttrPrefixWitness ==
    /\ phase = "build"
    /\ Len(stack) = 1
    /\ Len(stack[1].node.node) = 2
    /\ AttrChildren(stack[1].node) = {1}
    /\ ElemChildren(stack[1].node) = {2}

====
